---- MODULE Spec2Model ----
(***************************************************************************)
(* hydro-sense-monitor: the in-memory readings store of                    *)
(* backend/app/api/routes/sensor.py, the request decoding of               *)
(* backend/app/schemas.py, and the three handlers built on them            *)
(* (POST /sensor, GET /alerts, GET /units).                                *)
(*                                                                         *)
(* Numbers: pH, temperature and EC are Python floats; the model carries    *)
(* them in tenths (5.5 is 55, -10 is -100), so that every comparison of    *)
(* the code is an integer comparison with the same outcome.                *)
(* Time: a datetime is [t, aware]: t is the instant (for an offset-less    *)
(* datetime, its wall-clock reading), aware says whether it carries a UTC  *)
(* offset.  Python refuses to order an offset-less datetime against an     *)
(* offset-carrying one (TypeError).                                        *)
(* Strings: a unit id is a sequence of one-character strings.              *)
(***************************************************************************)
EXTENDS Integers, Sequences, FiniteSets, TLC

VARIABLES
    SENSOR_READINGS_STORE,  \* dict unit id -> list of SensorDataRecord
    now,                    \* the wall clock read by datetime.now(israel_tz)
    req,                    \* the request answered last
    resp                    \* the answer to it

vars == <<SENSOR_READINGS_STORE, now, req, resp>>

-----------------------------------------------------------------------------
(* Bounds of the exploration *)

MaxNow == 2          \* the clock runs over 1..MaxNow
MaxReadings == 2     \* Spec: records in the whole store
MaxAdded == 3        \* SpecQuery: records added to an earlier run of nine
MaxClients == 3      \* SpecConcurrent: requests in flight at once

-----------------------------------------------------------------------------
(* Program constants, in tenths *)

PH_MIN == 0                \* 0 <= ph_value
PH_MAX == 140              \* ph_value <= 14
TEMP_MIN == -100           \* -10 <= temp_value
TEMP_MAX == 600            \* temp_value <= 60
EC_MIN == 0                \* ec_value < 0
PH_HEALTHY_LOW == 55       \* ph_value < 5.5
PH_HEALTHY_HIGH == 70      \* ph_value > 7.0
FIELD_PH_GE == 0           \* Field(ge=0, le=14)
FIELD_PH_LE == 140
FIELD_TEMP_GE == -500      \* Field(ge=-50, le=100)
FIELD_TEMP_LE == 1000
FIELD_EC_GE == 0           \* Field(ge=0, le=10)
FIELD_EC_LE == 100
ALERTS_LIMIT == 10         \* alerts[:10]
RECENT_LIMIT == 10         \* sorted_readings[:10]
WARNING_MAX == 3           \* recent_alerts <= 3

HTTP_200_OK == 200
HTTP_400_BAD_REQUEST == 400
HTTP_422_UNPROCESSABLE_ENTITY == 422
HTTP_500_INTERNAL_SERVER_ERROR == 500

-----------------------------------------------------------------------------
(* Strings *)

Whitespace == {" "}

\* ord(c) of the characters unit ids are written with
CharCode(c) == CASE c = " " -> 32 [] c = "a" -> 97 [] c = "b" -> 98 [] c = "c" -> 99

RECURSIVE lstrip(_)
lstrip(s) == IF s # <<>> /\ Head(s) \in Whitespace THEN lstrip(Tail(s)) ELSE s

RECURSIVE rstrip(_)
rstrip(s) ==
    IF s # <<>> /\ s[Len(s)] \in Whitespace THEN rstrip(SubSeq(s, 1, Len(s) - 1)) ELSE s

\* str.strip()
strip(s) == rstrip(lstrip(s))

\* Python's s1 < s2 on strings: lexicographic by code point
RECURSIVE StrLess(_, _)
StrLess(s1, s2) ==
    IF s2 = <<>> THEN FALSE
    ELSE IF s1 = <<>> THEN TRUE
    ELSE IF CharCode(Head(s1)) # CharCode(Head(s2))
         THEN CharCode(Head(s1)) < CharCode(Head(s2))
         ELSE StrLess(Tail(s1), Tail(s2))

-----------------------------------------------------------------------------
(* Validation and classification: pure functions of sensor.py *)

\* validate_timestamp: "ok", or the exception raised.  timestamp > now raises
\* TypeError when timestamp carries no offset (now always carries one).
validate_timestamp(timestamp, clock) ==
    IF ~timestamp.aware THEN "TypeError"
    ELSE IF timestamp.t > clock THEN "InvalidTimestampError"
    ELSE "ok"

\* validate_sensor_readings: the exception raised and the field its message names
validate_sensor_readings_no_temp(readings) ==
    IF ~(PH_MIN <= readings.pH /\ readings.pH <= PH_MAX)
    THEN [exc |-> "InvalidSensorReadingsError", field |-> "pH"]
    ELSE IF readings.ec < EC_MIN
    THEN [exc |-> "InvalidSensorReadingsError", field |-> "ec"]
    ELSE [exc |-> "ok", field |-> "none"]

validate_sensor_readings(readings) ==
    IF ~(PH_MIN <= readings.pH /\ readings.pH <= PH_MAX)
    THEN [exc |-> "InvalidSensorReadingsError", field |-> "pH"]
    ELSE IF ~(TEMP_MIN <= readings.temp /\ readings.temp <= TEMP_MAX)
    THEN [exc |-> "InvalidSensorReadingsError", field |-> "temp"]
    ELSE IF readings.ec < EC_MIN
    THEN [exc |-> "InvalidSensorReadingsError", field |-> "ec"]
    ELSE [exc |-> "ok", field |-> "none"]

\* classify_reading
classify_reading_exclusive(readings) ==
    IF readings.pH <= PH_HEALTHY_LOW \/ readings.pH >= PH_HEALTHY_HIGH
    THEN "Needs Attention" ELSE "Healthy"

classify_reading(readings) ==
    IF readings.pH < PH_HEALTHY_LOW \/ readings.pH > PH_HEALTHY_HIGH
    THEN "Needs Attention" ELSE "Healthy"

-----------------------------------------------------------------------------
(* Request decoding: schemas.py, applied by FastAPI before the handler runs *)

\* as if the ec field had no upper bound
SensorReadings_valid_no_ec_le(readings) ==
    /\ FIELD_PH_GE <= readings.pH /\ readings.pH <= FIELD_PH_LE
    /\ FIELD_TEMP_GE <= readings.temp /\ readings.temp <= FIELD_TEMP_LE
    /\ FIELD_EC_GE <= readings.ec

\* SensorReadings: pH ge=0 le=14, temp ge=-50 le=100, ec ge=0 le=10
SensorReadings_valid(readings) ==
    /\ FIELD_PH_GE <= readings.pH /\ readings.pH <= FIELD_PH_LE
    /\ FIELD_TEMP_GE <= readings.temp /\ readings.temp <= FIELD_TEMP_LE
    /\ FIELD_EC_GE <= readings.ec /\ readings.ec <= FIELD_EC_LE

\* SensorDataInput.unit_id: min_length=1, then validate_unit_id (non-blank)
unit_id_valid(v) == Len(v) >= 1 /\ strip(v) # <<>>

\* as if the validator returned v itself
validate_unit_id_unstripped(v) == v

\* SensorDataInput.validate_unit_id returns v.strip()
validate_unit_id(v) == strip(v)

\* SensorDataInput(**body): the decoded input, or a validation error.
\* body.wellFormed is FALSE for a body that is no JSON object of the
\* declared types (bad syntax, a missing field, a string for a number).
SensorDataInput(body) ==
    IF body.wellFormed /\ unit_id_valid(body.unitId) /\ SensorReadings_valid(body.readings)
    THEN [ok |-> TRUE,
          unit_id |-> validate_unit_id(body.unitId),
          timestamp |-> body.timestamp,
          readings |-> body.readings]
    ELSE [ok |-> FALSE]

-----------------------------------------------------------------------------
(* The store *)

\* SENSOR_READINGS_STORE.setdefault(unit_id, []).append(reading_entry)
setdefault_append_front(store, unit_id, reading_entry) ==
    IF unit_id \in DOMAIN store
    THEN [store EXCEPT ![unit_id] = <<reading_entry>> \o @]
    ELSE (unit_id :> <<reading_entry>>) @@ store

setdefault_append_replace(store, unit_id, reading_entry) ==
    (unit_id :> <<reading_entry>>) @@ store

setdefault_append(store, unit_id, reading_entry) ==
    IF unit_id \in DOMAIN store
    THEN [store EXCEPT ![unit_id] = Append(@, reading_entry)]
    ELSE (unit_id :> <<reading_entry>>) @@ store

\* SENSOR_READINGS_STORE.get(unit_id, [])
store_get(store, unit_id) ==
    IF unit_id \in DOMAIN store THEN store[unit_id] ELSE <<>>

RECURSIVE SumLen(_, _)
SumLen(store, keys) ==
    IF keys = {} THEN 0
    ELSE LET k == CHOOSE x \in keys : TRUE
         IN Len(store[k]) + SumLen(store, keys \ {k})

\* the number of records in the whole store
StoreSize(store) == SumLen(store, DOMAIN store)

-----------------------------------------------------------------------------
(* POST /sensor *)

SubmitError(code, error, field) ==
    [op |-> "submit", code |-> code, error |-> error, field |-> field,
     status |-> "none", classification |-> "none"]

SubmitOk(classification) ==
    [op |-> "submit", code |-> HTTP_200_OK, error |-> "none", field |-> "none",
     status |-> "OK", classification |-> classification]

\* submit_sensor_reading(sensor_data), as a function of the store and the
\* clock: the store it leaves and the response (or the HTTPException raised)
submit_sensor_reading_store_first(store, clock, sensor_data) ==
    LET classification == classify_reading(sensor_data.readings)
        reading_entry == [unitId |-> sensor_data.unit_id,
                          timestamp |-> sensor_data.timestamp,
                          readings |-> sensor_data.readings,
                          classification |-> classification]
        stored == setdefault_append(store, sensor_data.unit_id, reading_entry)
        ts == validate_timestamp(sensor_data.timestamp, clock)
        rd == validate_sensor_readings(sensor_data.readings)
    IN  IF ts = "InvalidTimestampError"
        THEN [store |-> stored,
              resp |-> SubmitError(HTTP_400_BAD_REQUEST, "InvalidTimestampError", "timestamp")]
        ELSE IF ts # "ok"
        THEN [store |-> stored,
              resp |-> SubmitError(HTTP_500_INTERNAL_SERVER_ERROR, "Exception", "none")]
        ELSE IF rd.exc # "ok"
        THEN [store |-> stored,
              resp |-> SubmitError(HTTP_422_UNPROCESSABLE_ENTITY, rd.exc, rd.field)]
        ELSE [store |-> stored, resp |-> SubmitOk(classification)]

submit_sensor_reading(store, clock, sensor_data) ==
    LET ts == validate_timestamp(sensor_data.timestamp, clock)
        rd == validate_sensor_readings(sensor_data.readings)
        classification == classify_reading(sensor_data.readings)
        reading_entry == [unitId |-> sensor_data.unit_id,
                          timestamp |-> sensor_data.timestamp,
                          readings |-> sensor_data.readings,
                          classification |-> classification]
    IN  IF ts = "InvalidTimestampError"
        THEN [store |-> store,
              resp |-> SubmitError(HTTP_400_BAD_REQUEST, "InvalidTimestampError", "timestamp")]
        ELSE IF ts # "ok"
        THEN \* except Exception: the TypeError of the comparison
             [store |-> store,
              resp |-> SubmitError(HTTP_500_INTERNAL_SERVER_ERROR, "Exception", "none")]
        ELSE IF rd.exc # "ok"
        THEN [store |-> store,
              resp |-> SubmitError(HTTP_422_UNPROCESSABLE_ENTITY, rd.exc, rd.field)]
        ELSE [store |-> setdefault_append(store, sensor_data.unit_id, reading_entry),
              resp |-> SubmitOk(classification)]

\* The route: FastAPI decodes the body into SensorDataInput and answers 422
\* itself when that fails; otherwise the handler runs.
post_sensor(store, clock, body) ==
    LET sensor_data == SensorDataInput(body)
    IN  IF ~sensor_data.ok
        THEN [store |-> store,
              resp |-> SubmitError(HTTP_422_UNPROCESSABLE_ENTITY,
                                   "RequestValidationError", "body")]
        ELSE submit_sensor_reading(store, clock, sensor_data)

-----------------------------------------------------------------------------
(* Sorting and slicing *)

\* where list.sort(key=timestamp, reverse=True) leaves x among the elements
\* before it: behind every element that is not older (the sort is stable)
RECURSIVE InsertByTimestampDesc(_, _)
InsertByTimestampDesc(sorted, x) ==
    IF sorted = <<>> THEN <<x>>
    ELSE IF Head(sorted).timestamp.t >= x.timestamp.t
         THEN <<Head(sorted)>> \o InsertByTimestampDesc(Tail(sorted), x)
         ELSE <<x>> \o sorted

RECURSIVE SortFrom(_, _)
SortFrom(sorted, rest) ==
    IF rest = <<>> THEN sorted
    ELSE SortFrom(InsertByTimestampDesc(sorted, Head(rest)), Tail(rest))

\* sorted(readings, key=lambda x: x.timestamp, reverse=True)
RECURSIVE InsertByTimestampAsc(_, _)
InsertByTimestampAsc(sorted, x) ==
    IF sorted = <<>> THEN <<x>>
    ELSE IF Head(sorted).timestamp.t <= x.timestamp.t
         THEN <<Head(sorted)>> \o InsertByTimestampAsc(Tail(sorted), x)
         ELSE <<x>> \o sorted

RECURSIVE SortAscFrom(_, _)
SortAscFrom(sorted, rest) ==
    IF rest = <<>> THEN sorted
    ELSE SortAscFrom(InsertByTimestampAsc(sorted, Head(rest)), Tail(rest))

sort_by_timestamp_ascending(readings) == SortAscFrom(<<>>, readings)

sort_by_timestamp(readings) == SortFrom(<<>>, readings)

\* seq[:n]
take_last(seq, n) ==
    IF Len(seq) <= n THEN seq ELSE SubSeq(seq, Len(seq) - n + 1, Len(seq))

take(seq, n) == IF Len(seq) <= n THEN seq ELSE SubSeq(seq, 1, n)

\* [reading for reading in readings if reading.classification == "Needs Attention"]
RECURSIVE needs_attention(_)
needs_attention(readings) ==
    IF readings = <<>> THEN <<>>
    ELSE IF Head(readings).classification = "Needs Attention"
         THEN <<Head(readings)>> \o needs_attention(Tail(readings))
         ELSE needs_attention(Tail(readings))

-----------------------------------------------------------------------------
(* GET /alerts *)

\* unit_id: the unitId query parameter, [given, value]; given is FALSE when
\* the request has none (unit_id is None)
alerts_param_invalid_strict(unit_id) ==
    ~unit_id.given \/ unit_id.value = <<>>

alerts_param_invalid(unit_id) ==
    ~unit_id.given \/ unit_id.value = <<>> \/ strip(unit_id.value) = <<>>

alerts_untruncated(unit_readings) ==
    sort_by_timestamp(needs_attention(unit_readings))

alerts_of(unit_readings) ==
    take(sort_by_timestamp(needs_attention(unit_readings)), ALERTS_LIMIT)

get_unit_alerts_exists_by_alerts(store, unit_id) ==
    IF alerts_param_invalid(unit_id)
    THEN [op |-> "alerts", code |-> HTTP_400_BAD_REQUEST, error |-> "HTTPException"]
    ELSE LET unit_readings == store_get(store, strip(unit_id.value))
         IN  [op |-> "alerts", code |-> HTTP_200_OK, error |-> "none",
              unitId |-> strip(unit_id.value),
              alerts |-> alerts_of(unit_readings),
              unitExists |-> Len(alerts_of(unit_readings)) > 0,
              totalReadings |-> Len(alerts_of(unit_readings))]

get_unit_alerts(store, unit_id) ==
    IF alerts_param_invalid(unit_id)
    THEN [op |-> "alerts", code |-> HTTP_400_BAD_REQUEST, error |-> "HTTPException"]
    ELSE LET unit_readings == store_get(store, strip(unit_id.value))
         IN  [op |-> "alerts", code |-> HTTP_200_OK, error |-> "none",
              unitId |-> strip(unit_id.value),
              alerts |-> alerts_of(unit_readings),
              unitExists |-> Len(unit_readings) > 0,
              totalReadings |-> Len(unit_readings)]

-----------------------------------------------------------------------------
(* GET /units *)

\* sum(reading.classification == "Needs Attention" for reading in readings)
count_alerts(readings) == Len(needs_attention(readings))

health_status_of_count(recent_alerts) ==
    IF recent_alerts = 0 THEN "healthy"
    ELSE IF recent_alerts <= WARNING_MAX THEN "warning"
    ELSE "critical"

\* the readings the health status is computed from
recent_readings_by_insertion(readings) == take_last(readings, RECENT_LIMIT)

recent_readings(readings) == take(sort_by_timestamp(readings), RECENT_LIMIT)

\* as if last_reading were readings[-1], the reading stored last
UnitStatus_last_inserted(unit_id, readings) ==
    [unitId |-> unit_id,
     lastReading |-> IF readings # <<>> THEN <<readings[Len(readings)]>> ELSE <<>>,
     totalReadings |-> Len(readings),
     alertsCount |-> count_alerts(readings),
     healthStatus |-> health_status_of_count(count_alerts(recent_readings(readings)))]

UnitStatus_alerts_of_recent(unit_id, readings) ==
    LET sorted_readings == sort_by_timestamp(readings)
    IN  [unitId |-> unit_id,
         lastReading |-> IF sorted_readings # <<>> THEN <<Head(sorted_readings)>> ELSE <<>>,
         totalReadings |-> Len(readings),
         alertsCount |-> count_alerts(recent_readings(readings)),
         healthStatus |-> health_status_of_count(count_alerts(recent_readings(readings)))]

\* one pass of the loop over SENSOR_READINGS_STORE.items()
UnitStatus(unit_id, readings) ==
    LET sorted_readings == sort_by_timestamp(readings)
    IN  [unitId |-> unit_id,
         \* None is <<>>, a reading r is <<r>>
         lastReading |-> IF sorted_readings # <<>> THEN <<Head(sorted_readings)>> ELSE <<>>,
         totalReadings |-> Len(readings),
         alertsCount |-> count_alerts(readings),
         healthStatus |-> health_status_of_count(count_alerts(recent_readings(readings)))]

status_order(health_status) ==
    CASE health_status = "critical" -> 0
      [] health_status = "warning" -> 1
      [] health_status = "healthy" -> 2

UnitKeyLess_by_unit_id(x, y) == StrLess(x.unitId, y.unitId)

\* (status_order[x.health_status], x.unit_id) < (status_order[y...], y.unit_id)
UnitKeyLess(x, y) ==
    \/ status_order(x.healthStatus) < status_order(y.healthStatus)
    \/ /\ status_order(x.healthStatus) = status_order(y.healthStatus)
       /\ StrLess(x.unitId, y.unitId)

\* unit_statuses.sort(key=...): unit ids are distinct, so the key orders the
\* statuses totally and the result does not depend on the order of the dict
RECURSIVE SortUnits(_)
SortUnits(statuses) ==
    IF statuses = {} THEN <<>>
    ELSE LET first == CHOOSE x \in statuses :
                          \A y \in statuses \ {x} : UnitKeyLess(x, y)
         IN  <<first>> \o SortUnits(statuses \ {first})

\* as if the overview left out the units that never raised an alert
get_all_units_alerting_only(store) ==
    LET unit_statuses ==
            SortUnits({ UnitStatus(u, store[u]) :
                          u \in { v \in DOMAIN store : count_alerts(store[v]) > 0 } })
    IN  [op |-> "units", code |-> HTTP_200_OK, error |-> "none",
         units |-> unit_statuses, totalUnits |-> Len(unit_statuses)]

get_all_units(store) ==
    LET unit_statuses == SortUnits({UnitStatus(u, store[u]) : u \in DOMAIN store})
    IN  [op |-> "units", code |-> HTTP_200_OK, error |-> "none",
         units |-> unit_statuses, totalUnits |-> Len(unit_statuses)]

-----------------------------------------------------------------------------
(* Inputs *)

Reading(pH, temp, ec) == [pH |-> pH, temp |-> temp, ec |-> ec]

HealthyReading == Reading(PH_HEALTHY_LOW, TEMP_MIN, EC_MIN)
AlertReading == Reading(PH_HEALTHY_HIGH + 1, TEMP_MAX, FIELD_EC_LE)

\* readings the service turns down: each has one field just past a limit
RejectedReadings ==
    { Reading(PH_MIN - 1, 220, 12), Reading(PH_MAX + 1, 220, 12),
      Reading(65, TEMP_MIN - 1, 12), Reading(65, TEMP_MAX + 1, 12),
      Reading(65, FIELD_TEMP_LE + 1, 12),
      Reading(65, 220, EC_MIN - 1), Reading(65, 220, FIELD_EC_LE + 1) }

ReadingInputs == {HealthyReading, AlertReading} \cup RejectedReadings

\* with an offset: every instant of the clock and one past its end; without
\* one: the earliest and the latest of them
AwareTimestamps == { [t |-> t, aware |-> TRUE] : t \in 1..(MaxNow + 1) }
NaiveTimestamps == { [t |-> t, aware |-> FALSE] : t \in {1, MaxNow + 1} }
Timestamps == AwareTimestamps \cup NaiveTimestamps

Body(unitId, timestamp, readings) ==
    [wellFormed |-> TRUE, unitId |-> unitId, timestamp |-> timestamp,
     readings |-> readings]

\* a body FastAPI cannot decode (bad JSON, a missing field, a wrong type)
MalformedBody ==
    [wellFormed |-> FALSE, unitId |-> <<"b">>,
     timestamp |-> [t |-> 1, aware |-> TRUE], readings |-> HealthyReading]

\* unit b sends every timestamp with every reading; a second unit, its id
\* padded with blanks, sends the readings that can be stored; an empty and a
\* blank id come with a past and a future timestamp, a good and a hot reading
SubmitBodies ==
    { Body(<<"b">>, ts, r) : ts \in Timestamps, r \in ReadingInputs }
    \cup { Body(<<" ", "a", " ">>, ts, r) :
              ts \in AwareTimestamps, r \in {HealthyReading, AlertReading} }
    \cup { Body(u, ts, r) :
              u \in {<<>>, <<" ">>},
              ts \in {[t |-> 1, aware |-> TRUE], [t |-> MaxNow + 1, aware |-> TRUE]},
              r \in {HealthyReading, Reading(65, TEMP_MAX + 1, 12)} }
    \cup {MalformedBody}

AlertsParams ==
    { [given |-> FALSE, value |-> <<>>] }
    \cup { [given |-> TRUE, value |-> v] :
             v \in { <<>>, <<" ">>, <<"a">>, <<" ", "a">>, <<"b">>, <<"c">> } }

-----------------------------------------------------------------------------
(* Actions *)

\* time passes
Tick ==
    /\ now < MaxNow
    /\ now' = now + 1
    /\ UNCHANGED <<SENSOR_READINGS_STORE, req, resp>>

\* POST /sensor with this body
PostSensor(body) ==
    LET out == post_sensor(SENSOR_READINGS_STORE, now, body)
    IN  /\ SENSOR_READINGS_STORE' = out.store
        /\ resp' = out.resp
        /\ req' = [op |-> "submit", body |-> body, at |-> now]
        /\ UNCHANGED now

\* as if the handler sorted the unit's stored list instead of a copy of it
GetAlerts_sorting_stored_list(unit_id) ==
    LET key == strip(unit_id.value)
    IN  /\ resp' = get_unit_alerts(SENSOR_READINGS_STORE, unit_id)
        /\ req' = [op |-> "alerts", unit_id |-> unit_id]
        /\ SENSOR_READINGS_STORE' =
              IF ~alerts_param_invalid(unit_id) /\ key \in DOMAIN SENSOR_READINGS_STORE
              THEN [SENSOR_READINGS_STORE EXCEPT ![key] = sort_by_timestamp(@)]
              ELSE SENSOR_READINGS_STORE
        /\ UNCHANGED now

\* as if the handler read the store with setdefault(unit_id, []) instead of get
GetAlerts_setdefault(unit_id) ==
    LET key == strip(unit_id.value)
    IN  /\ resp' = get_unit_alerts(SENSOR_READINGS_STORE, unit_id)
        /\ req' = [op |-> "alerts", unit_id |-> unit_id]
        /\ SENSOR_READINGS_STORE' =
              IF ~alerts_param_invalid(unit_id) /\ key \notin DOMAIN SENSOR_READINGS_STORE
              THEN (key :> <<>>) @@ SENSOR_READINGS_STORE
              ELSE SENSOR_READINGS_STORE
        /\ UNCHANGED now

\* GET /alerts, with or without ?unitId=
GetAlerts(unit_id) ==
    /\ resp' = get_unit_alerts(SENSOR_READINGS_STORE, unit_id)
    /\ req' = [op |-> "alerts", unit_id |-> unit_id]
    /\ UNCHANGED <<SENSOR_READINGS_STORE, now>>

\* GET /units
GetUnits ==
    /\ resp' = get_all_units(SENSOR_READINGS_STORE)
    /\ req' = [op |-> "units"]
    /\ UNCHANGED <<SENSOR_READINGS_STORE, now>>

-----------------------------------------------------------------------------
(* Spec: the service from its start, every kind of request *)

EmptyStore == [u \in {} |-> <<>>]

Init ==
    /\ SENSOR_READINGS_STORE = EmptyStore
    /\ now = 1
    /\ req = [op |-> "none"]
    /\ resp = [op |-> "none"]

Submit ==
    \E body \in SubmitBodies :
        /\ PostSensor(body)
        /\ StoreSize(SENSOR_READINGS_STORE') <= MaxReadings

Alerts == \E unit_id \in AlertsParams : GetAlerts(unit_id)

Next == Tick \/ Submit \/ Alerts \/ GetUnits

Spec == Init /\ [][Next]_vars

-----------------------------------------------------------------------------
(* SpecQuery: the service after a longer run of accepted submissions, so   *)
(* that a unit holds more readings than the queries' limits of 10          *)

RECURSIVE Replay(_, _, _)
\* the store after these bodies were posted one after the other
Replay(store, clock, bodies) ==
    IF bodies = <<>> THEN store
    ELSE Replay(post_sensor(store, clock, Head(bodies)).store, clock, Tail(bodies))

Repeat(body, n) == [i \in 1..n |-> body]

QueryClock == MaxNow + 1

At(t) == [t |-> t, aware |-> TRUE]

\* earlier runs of unit a, nine readings stamped 2: all alerts; all healthy;
\* healthy readings followed by as many alerts as still make a warning
EarlierRuns ==
    { Repeat(Body(<<"a">>, At(2), AlertReading), ALERTS_LIMIT - 1),
      Repeat(Body(<<"a">>, At(2), HealthyReading), RECENT_LIMIT - 1),
      Repeat(Body(<<"a">>, At(2), HealthyReading), RECENT_LIMIT - 1 - WARNING_MAX)
        \o Repeat(Body(<<"a">>, At(2), AlertReading), WARNING_MAX) }

InitQuery ==
    /\ \E bodies \in EarlierRuns :
           SENSOR_READINGS_STORE = Replay(EmptyStore, QueryClock, bodies)
    /\ now = QueryClock
    /\ req = [op |-> "none"]
    /\ resp = [op |-> "none"]

\* unit a goes on reporting, at any time and in any order; unit b reports an
\* alert and unit c a healthy reading
QueryBodies ==
    { Body(<<"a">>, At(t), r) : t \in 1..QueryClock, r \in {HealthyReading, AlertReading} }
    \cup { Body(<<"b">>, At(1), AlertReading), Body(<<"c">>, At(1), HealthyReading) }

SubmitMore ==
    \E body \in QueryBodies :
        /\ PostSensor(body)
        /\ StoreSize(SENSOR_READINGS_STORE') <= RECENT_LIMIT - 1 + MaxAdded

NextQuery == SubmitMore \/ Alerts \/ GetUnits

SpecQuery == InitQuery /\ [][NextQuery]_vars

-----------------------------------------------------------------------------
(* SpecPure: validate_timestamp, validate_sensor_readings and              *)
(* classify_reading called on their own, as test_classification.py does    *)

\* every limit of the code, with the values a tenth below and above it
PhGrid ==
    { c + d : c \in {PH_MIN, PH_HEALTHY_LOW, PH_HEALTHY_HIGH, PH_MAX}, d \in {-1, 0, 1} }
    \cup {65}
TempGrid == { c + d : c \in {TEMP_MIN, TEMP_MAX}, d \in {-1, 0, 1} } \cup {220}
EcGrid == { EC_MIN - 1, EC_MIN, 12 }

ReadingGrid == { Reading(pH, temp, ec) : pH \in PhGrid, temp \in TempGrid, ec \in EcGrid }

CallClassify ==
    \E readings \in ReadingGrid :
        /\ req' = [op |-> "classify_reading", readings |-> readings]
        /\ resp' = [op |-> "classify_reading", result |-> classify_reading(readings)]
        /\ UNCHANGED <<SENSOR_READINGS_STORE, now>>

CallValidateReadings ==
    \E readings \in ReadingGrid :
        /\ req' = [op |-> "validate_sensor_readings", readings |-> readings]
        /\ resp' = [op |-> "validate_sensor_readings",
                    result |-> validate_sensor_readings(readings)]
        /\ UNCHANGED <<SENSOR_READINGS_STORE, now>>

CallValidateTimestamp ==
    \E timestamp \in Timestamps :
        /\ req' = [op |-> "validate_timestamp", timestamp |-> timestamp, at |-> now]
        /\ resp' = [op |-> "validate_timestamp",
                    result |-> validate_timestamp(timestamp, now)]
        /\ UNCHANGED <<SENSOR_READINGS_STORE, now>>

NextPure == Tick \/ CallClassify \/ CallValidateReadings \/ CallValidateTimestamp

SpecPure == Init /\ [][NextPure]_vars

-----------------------------------------------------------------------------
(* SpecConcurrent: several requests in flight at once.  The handlers are   *)
(* coroutines (async def) that FastAPI runs on one event loop.  For every  *)
(* client, req holds its request with the position (pc) and the locals of  *)
(* its handler, and resp the answer it got.  A handler is a sequence of     *)
(* steps, one for the statements up to its next read or write of the store *)

Clients == 1..MaxClients

Idle == [op |-> "none", arg |-> <<>>, pc |-> "idle", local |-> <<>>]

\* the handler of this request has started and has not returned
in_handler(request) == request.pc \notin {"idle", "received", "done"}

\* handlers that could be interrupted between any two statements
event_loop_free_preemptive(c) == TRUE

\* A coroutine gives up the event loop only at an await, and the handlers
\* have none: a handler of client c takes a step only while no other handler
\* is under way.
event_loop_free(c) == \A d \in Clients \ {c} : ~in_handler(req[d])

\* units a and b report at the current time, unit a also with a timestamp
\* in the future; the alerts of unit a and the overview are asked for
ConcurrentRequests ==
    { [op |-> "submit", arg |-> Body(<<"a">>, At(1), AlertReading)],
      [op |-> "submit", arg |-> Body(<<"a">>, At(1), HealthyReading)],
      [op |-> "submit", arg |-> Body(<<"b">>, At(1), AlertReading)],
      [op |-> "submit", arg |-> Body(<<"a">>, At(2), HealthyReading)],
      [op |-> "alerts", arg |-> [given |-> TRUE, value |-> <<"a">>]],
      [op |-> "units", arg |-> <<>>] }

InitConcurrent ==
    /\ SENSOR_READINGS_STORE = EmptyStore
    /\ now = 1
    /\ req = [c \in Clients |-> Idle]
    /\ resp = [c \in Clients |-> [op |-> "none"]]

\* the handler of client c returns (or raises) this response
Return(c, response) ==
    /\ req' = [req EXCEPT ![c].pc = "done", ![c].local = <<>>]
    /\ resp' = [resp EXCEPT ![c] = response]

\* the handler of client c goes on to position pc with these locals
Goto(c, pc, local) ==
    /\ req' = [req EXCEPT ![c].pc = pc, ![c].local = local]
    /\ UNCHANGED resp

\* a request of client c arrives; FastAPI decodes it and answers 422 itself
\* when a body does not decode
Receive(c) ==
    \E r \in ConcurrentRequests :
        /\ req[c].pc = "idle"
        /\ IF r.op = "submit" /\ ~SensorDataInput(r.arg).ok
           THEN /\ req' = [req EXCEPT ![c] = [Idle EXCEPT !.op = r.op, !.arg = r.arg,
                                                          !.pc = "done"]]
                /\ resp' = [resp EXCEPT ![c] =
                                post_sensor(SENSOR_READINGS_STORE, now, r.arg).resp]
           ELSE /\ req' = [req EXCEPT ![c] = [Idle EXCEPT !.op = r.op, !.arg = r.arg,
                                                          !.pc = "received"]]
                /\ UNCHANGED resp
        /\ UNCHANGED <<SENSOR_READINGS_STORE, now>>

\* submit_sensor_reading up to the store: the checks, the label, the record
\* (none of them reads the store, so they are computed on an empty one)
SubmitValidate(c) ==
    /\ req[c].op = "submit" /\ req[c].pc = "received"
    /\ event_loop_free(c)
    /\ LET sensor_data == SensorDataInput(req[c].arg)
           out == submit_sensor_reading(EmptyStore, now, sensor_data)
       IN  IF out.resp.code # HTTP_200_OK
           THEN Return(c, out.resp)
           ELSE Goto(c, "submit_157",
                     [reading_entry |-> out.store[sensor_data.unit_id][1]])
    /\ UNCHANGED <<SENSOR_READINGS_STORE, now>>

\* SENSOR_READINGS_STORE.setdefault(unit_id, []).append(reading_entry); return
SubmitAppend(c) ==
    /\ req[c].pc = "submit_157"
    /\ event_loop_free(c)
    /\ LET reading_entry == req[c].local.reading_entry
       IN  /\ SENSOR_READINGS_STORE' =
                 setdefault_append(SENSOR_READINGS_STORE, reading_entry.unitId,
                                   reading_entry)
           /\ Return(c, SubmitOk(reading_entry.classification))
    /\ UNCHANGED now

\* get_unit_alerts up to the slice: unit_readings is the unit's stored list
\* itself (live) or, for an unknown unit, the default []
AlertsFilter(c) ==
    /\ req[c].op = "alerts" /\ req[c].pc = "received"
    /\ event_loop_free(c)
    /\ IF alerts_param_invalid(req[c].arg)
       THEN Return(c, get_unit_alerts(SENSOR_READINGS_STORE, req[c].arg))
       ELSE LET unit_id == strip(req[c].arg.value)
                unit_readings == store_get(SENSOR_READINGS_STORE, unit_id)
            IN  Goto(c, "alerts_251",
                     [unit_id |-> unit_id,
                      live |-> unit_id \in DOMAIN SENSOR_READINGS_STORE,
                      unit_exists |-> Len(unit_readings) > 0,
                      alerts |-> alerts_of(unit_readings)])
    /\ UNCHANGED <<SENSOR_READINGS_STORE, now>>

\* return AlertsResponse(..., total_readings=len(unit_readings))
AlertsRespond(c) ==
    /\ req[c].pc = "alerts_251"
    /\ event_loop_free(c)
    /\ LET local == req[c].local
           unit_readings == IF local.live THEN SENSOR_READINGS_STORE[local.unit_id]
                            ELSE <<>>
       IN  Return(c, [op |-> "alerts", code |-> HTTP_200_OK, error |-> "none",
                      unitId |-> local.unit_id,
                      alerts |-> local.alerts,
                      unitExists |-> local.unit_exists,
                      totalReadings |-> Len(unit_readings)])
    /\ UNCHANGED <<SENSOR_READINGS_STORE, now>>

\* unit_statuses = []; the iterator over SENSOR_READINGS_STORE.items()
UnitsBegin(c) ==
    /\ req[c].op = "units" /\ req[c].pc = "received"
    /\ event_loop_free(c)
    /\ Goto(c, "units_290",
            [size |-> Cardinality(DOMAIN SENSOR_READINGS_STORE), visited |-> {},
             unit_statuses |-> {}, current |-> <<>>])
    /\ UNCHANGED <<SENSOR_READINGS_STORE, now>>

\* The head of the loop.  A dict that changed size under its iterator raises
\* RuntimeError, which nothing catches (500); after the last unit come the
\* sort and the return; otherwise the next unit's readings are sorted and
\* counted (the units in any order: the final sort does not depend on it).
UnitsIterate(c) ==
    /\ req[c].pc = "units_290"
    /\ event_loop_free(c)
    /\ LET local == req[c].local
       IN  IF Cardinality(DOMAIN SENSOR_READINGS_STORE) # local.size
           THEN Return(c, [op |-> "units", code |-> HTTP_500_INTERNAL_SERVER_ERROR,
                           error |-> "RuntimeError"])
           ELSE IF local.visited = DOMAIN SENSOR_READINGS_STORE
           THEN LET unit_statuses == SortUnits(local.unit_statuses)
                IN  Return(c, [op |-> "units", code |-> HTTP_200_OK, error |-> "none",
                               units |-> unit_statuses,
                               totalUnits |-> Len(unit_statuses)])
           ELSE \E unit_id \in DOMAIN SENSOR_READINGS_STORE \ local.visited :
                    Goto(c, "units_313",
                         [local EXCEPT !.current =
                             UnitStatus(unit_id, SENSOR_READINGS_STORE[unit_id])])
    /\ UNCHANGED <<SENSOR_READINGS_STORE, now>>

\* unit_status = UnitStatus(..., totalReadings=len(readings), ...);
\* unit_statuses.append(unit_status)
UnitsAppendStatus(c) ==
    /\ req[c].pc = "units_313"
    /\ event_loop_free(c)
    /\ LET local == req[c].local
           unit_id == local.current.unitId
           unit_status == [local.current EXCEPT
                             !.totalReadings = Len(SENSOR_READINGS_STORE[unit_id])]
       IN  Goto(c, "units_290",
                [local EXCEPT !.visited = @ \cup {unit_id},
                              !.unit_statuses = @ \cup {unit_status},
                              !.current = <<>>])
    /\ UNCHANGED <<SENSOR_READINGS_STORE, now>>

NextConcurrent ==
    \E c \in Clients :
        \/ Receive(c)
        \/ SubmitValidate(c)
        \/ SubmitAppend(c)
        \/ AlertsFilter(c)
        \/ AlertsRespond(c)
        \/ UnitsBegin(c)
        \/ UnitsIterate(c)
        \/ UnitsAppendStatus(c)

SpecConcurrent == InitConcurrent /\ [][NextConcurrent]_vars

-----------------------------------------------------------------------------
(* Claims *)

\* what the claims say of a reading, in tenths
PhOutOfRange(readings) == readings.pH < 0 \/ readings.pH > 140
TempOutOfRange(readings) == readings.temp < -100 \/ readings.temp > 600
EcNegative(readings) == readings.ec < 0
OutOfRange(readings) ==
    PhOutOfRange(readings) \/ TempOutOfRange(readings) \/ EcNegative(readings)
LabelOf(pH) == IF 55 <= pH /\ pH <= 70 THEN "Healthy" ELSE "Needs Attention"

\* a step that answers a POST /sensor (no other step keeps the clock and
\* leaves a submission as the last request)
SubmitStep == now' = now /\ req'.op = "submit"

\* C1: classify_reading returns "Healthy" exactly when 5.5 <= pH <= 7.0 and
\* "Needs Attention" for every other pH of [0, 14], whatever temp and ec are.
C1_ClassifyByPh ==
    (req.op = "classify_reading" /\ 0 <= req.readings.pH /\ req.readings.pH <= 140)
    => /\ resp.result \in {"Healthy", "Needs Attention"}
       /\ resp.result = "Healthy" <=> (55 <= req.readings.pH /\ req.readings.pH <= 70)
       /\ \A other \in ReadingGrid :
              other.pH = req.readings.pH => classify_reading(other) = resp.result

C1_Witness ==
    /\ req.op = "classify_reading"
    /\ req.readings.pH = 70 /\ req.readings.temp = 601 /\ req.readings.ec = -1
    /\ resp.result = "Healthy"

C3_FutureRejected ==
    [][ (SubmitStep /\ SensorDataInput(req'.body).ok)
        => /\ req'.body.timestamp.t > req'.at
              => /\ resp'.code = 400 /\ resp'.error = "InvalidTimestampError"
                 /\ SENSOR_READINGS_STORE' = SENSOR_READINGS_STORE
           /\ req'.body.timestamp.t <= req'.at
              => resp'.error \notin {"InvalidTimestampError", "Exception"} ]_vars

\* C4: a submission answered with an error (400, 422 from the range check or
\* from decoding, 500) leaves the store as it was.
C4_AllOrNothing ==
    [][ (SubmitStep /\ resp'.code # 200)
        => /\ resp'.code \in {400, 422, 500}
           /\ SENSOR_READINGS_STORE' = SENSOR_READINGS_STORE ]_vars

C4_Witness ==
    /\ req.op = "submit" /\ resp.code = 500
    /\ SENSOR_READINGS_STORE # EmptyStore

\* C5: a submission answered 200 returns status OK and the label of its pH,
\* and appends one record with that label to the end of its unit's list
\* (a new list for a new unit), leaving the other units' lists alone; no
\* other step changes the store.
C5_AppendOnly ==
    [][ /\ (SubmitStep /\ resp'.code = 200)
           => LET body == req'.body
                  u == SelectSeq(body.unitId, LAMBDA c : c # " ")
                  old == SENSOR_READINGS_STORE
                  before == IF u \in DOMAIN old THEN old[u] ELSE <<>>
              IN  /\ resp'.status = "OK"
                  /\ resp'.classification = LabelOf(body.readings.pH)
                  /\ DOMAIN SENSOR_READINGS_STORE' = DOMAIN old \cup {u}
                  /\ SENSOR_READINGS_STORE'[u] =
                        Append(before, [unitId |-> u, timestamp |-> body.timestamp,
                                        readings |-> body.readings,
                                        classification |-> resp'.classification])
                  /\ \A v \in DOMAIN old \ {u} : SENSOR_READINGS_STORE'[v] = old[v]
        /\ ~SubmitStep => SENSOR_READINGS_STORE' = SENSOR_READINGS_STORE ]_vars

C5_Witness ==
    /\ req.op = "submit" /\ resp.code = 200
    /\ req.body.unitId = <<"b">>
    /\ <<"b">> \in DOMAIN SENSOR_READINGS_STORE
    /\ Len(SENSOR_READINGS_STORE[<<"b">>]) = 2
    /\ SENSOR_READINGS_STORE[<<"b">>][1].classification = "Needs Attention"
    /\ SENSOR_READINGS_STORE[<<"b">>][2].classification = "Healthy"
    /\ resp.classification = "Healthy"

\* the alerts of a list of readings, and those of them stamped t
AlertIndices(readings) ==
    { i \in 1..Len(readings) : readings[i].classification = "Needs Attention" }
StampedAlerts(readings, t) ==
    SelectSeq(readings,
              LAMBDA r : r.classification = "Needs Attention" /\ r.timestamp.t = t)
IsPrefix(p, s) == Len(p) <= Len(s) /\ SubSeq(s, 1, Len(p)) = p
Min(a, b) == IF a <= b THEN a ELSE b

\* the readings stored for the unit an alerts response is about
AnsweredUnitReadings ==
    IF resp.unitId \in DOMAIN SENSOR_READINGS_STORE
    THEN SENSOR_READINGS_STORE[resp.unitId] ELSE <<>>

AlertsAnswered == req.op = "alerts" /\ resp.code = 200

\* C6: the alerts returned are in descending order of timestamp, whatever the
\* order of submission, and alerts of equal timestamp are in the order in
\* which they were stored.
C6_AlertsNewestFirst ==
    AlertsAnswered
    => /\ \A i, j \in 1..Len(resp.alerts) :
              i < j => resp.alerts[i].timestamp.t >= resp.alerts[j].timestamp.t
       /\ \A t \in 1..QueryClock :
              IsPrefix(StampedAlerts(resp.alerts, t),
                       StampedAlerts(AnsweredUnitReadings, t))

\* submitted T3, T1, T2: returned T3, T2, T1
C6_Witness ==
    /\ AlertsAnswered
    /\ Len(AnsweredUnitReadings) = 12
    /\ \A i \in 1..9 : AnsweredUnitReadings[i].classification = "Healthy"
    /\ AnsweredUnitReadings[10].timestamp.t = 3
    /\ AnsweredUnitReadings[11].timestamp.t = 1
    /\ AnsweredUnitReadings[12].timestamp.t = 2
    /\ Len(resp.alerts) = 3
    /\ resp.alerts[1].timestamp.t = 3
    /\ resp.alerts[2].timestamp.t = 2
    /\ resp.alerts[3].timestamp.t = 1

\* C7: the alerts returned for unit u are records stored for u and labelled
\* "Needs Attention", at most 10 of them: all of them when u has at most 10,
\* and otherwise the 10 with the latest timestamps.
C7_AlertsLatestTen ==
    AlertsAnswered
    => LET stored == AnsweredUnitReadings
           alerts == resp.alerts
       IN  /\ Len(alerts) <= 10
           /\ Len(alerts) = Min(10, Cardinality(AlertIndices(stored)))
           /\ \A i \in 1..Len(alerts) :
                  /\ alerts[i].classification = "Needs Attention"
                  /\ alerts[i].unitId = resp.unitId
                  /\ \E k \in 1..Len(stored) : stored[k] = alerts[i]
           \* as many alerts stamped t or later as are stored, up to 10
           /\ \A t \in 1..QueryClock :
                  Cardinality({ i \in 1..Len(alerts) : alerts[i].timestamp.t >= t })
                    = Min(10, Cardinality({ k \in AlertIndices(stored) :
                                              stored[k].timestamp.t >= t }))

C7_Witness ==
    /\ AlertsAnswered
    /\ Cardinality(AlertIndices(AnsweredUnitReadings)) = 11
    /\ Len(resp.alerts) = 10
    /\ resp.alerts[1].timestamp.t = 3
    /\ \E k \in 1..Len(AnsweredUnitReadings) : AnsweredUnitReadings[k].timestamp.t = 1
    /\ \A i \in 1..10 : resp.alerts[i].timestamp.t >= 2
    /\ <<"b">> \in DOMAIN SENSOR_READINGS_STORE

\* a unitId parameter that is given and not blank
ParamNamesUnit(unit_id) ==
    unit_id.given /\ \E i \in 1..Len(unit_id.value) : unit_id.value[i] # " "

C9_BlankUnitIdRejected ==
    [][ (req'.op = "alerts" /\ ~ParamNamesUnit(req'.unit_id))
        => /\ resp'.code = 400
           /\ DOMAIN resp' \cap {"alerts", "unitId", "unitExists", "totalReadings"} = {}
           /\ SENSOR_READINGS_STORE' = SENSOR_READINGS_STORE ]_vars

C9_Witness ==
    /\ req.op = "alerts" /\ req.unit_id.given /\ req.unit_id.value = <<" ">>
    /\ resp.code = 400
    /\ SENSOR_READINGS_STORE # EmptyStore

\* the health status for a number of alerts
HealthOf(n) == IF n = 0 THEN "healthy" ELSE IF n <= 3 THEN "warning" ELSE "critical"

\* the sets of min(10, n) positions of a list that hold its latest readings
LatestTen(readings) ==
    { W \in SUBSET (1..Len(readings)) :
        /\ Cardinality(W) = Min(10, Len(readings))
        /\ \A i \in W : \A j \in (1..Len(readings)) \ W :
               readings[i].timestamp.t >= readings[j].timestamp.t }

\* C10: in GET /units the healthStatus of a unit is that of the alerts among
\* its 10 latest readings by timestamp (all of them when it has fewer):
\* healthy for none, warning for 1 to 3, critical for 4 or more.
C10_HealthOfLatestTen ==
    req.op = "units"
    => \A n \in 1..Len(resp.units) :
          LET status == resp.units[n]
              readings == SENSOR_READINGS_STORE[status.unitId]
          IN  \E W \in LatestTen(readings) :
                  status.healthStatus = HealthOf(Cardinality(W \cap AlertIndices(readings)))

\* eleven readings, the only alert the oldest of them and the last stored
C10_Witness ==
    /\ req.op = "units"
    /\ \E n \in 1..Len(resp.units) :
          LET status == resp.units[n]
              readings == SENSOR_READINGS_STORE[status.unitId]
          IN  /\ status.healthStatus = "healthy"
              /\ Len(readings) = 11
              /\ AlertIndices(readings) = {11}
              /\ readings[11].timestamp.t = 1
    /\ \E n \in 1..Len(resp.units) : resp.units[n].healthStatus = "warning"

\* the rank of a health status in the overview, most urgent first
SeverityRank(health) ==
    IF health = "critical" THEN 1 ELSE IF health = "warning" THEN 2 ELSE 3

UnitsAnswered == req.op = "units" /\ resp.code = 200

\* C11: GET /units lists every unit that has a stored reading exactly once and
\* no other unit, critical units first, then warning, then healthy, units of
\* equal severity by ascending unitId; totalUnits is the length of the list.
C11_UnitsBySeverityThenId ==
    req.op = "units"
    => /\ resp.code = 200
       /\ resp.totalUnits = Len(resp.units)
       /\ \A n \in 1..Len(resp.units) :
              /\ resp.units[n].unitId \in DOMAIN SENSOR_READINGS_STORE
              /\ Len(SENSOR_READINGS_STORE[resp.units[n].unitId]) >= 1
              /\ resp.units[n].healthStatus \in {"critical", "warning", "healthy"}
       /\ \A u \in DOMAIN SENSOR_READINGS_STORE :
              Len(SENSOR_READINGS_STORE[u]) >= 1
              => Cardinality({ n \in 1..Len(resp.units) : resp.units[n].unitId = u }) = 1
       /\ \A i, j \in 1..Len(resp.units) :
              i < j
              => LET x == resp.units[i]
                     y == resp.units[j]
                 IN  \/ SeverityRank(x.healthStatus) < SeverityRank(y.healthStatus)
                     \/ /\ x.healthStatus = y.healthStatus
                        /\ StrLess(x.unitId, y.unitId)

\* warning b is listed before healthy a and c, and a before c
C11_Witness ==
    /\ UnitsAnswered
    /\ resp.totalUnits = 3
    /\ resp.units[1].unitId = <<"b">> /\ resp.units[1].healthStatus = "warning"
    /\ resp.units[2].unitId = <<"a">> /\ resp.units[2].healthStatus = "healthy"
    /\ resp.units[3].unitId = <<"c">> /\ resp.units[3].healthStatus = "healthy"

\* the unit has alerts, each of them older than 10 or more of its readings
AlertsOlderThanLatestTen(readings) ==
    /\ AlertIndices(readings) # {}
    /\ \A k \in AlertIndices(readings) :
           Cardinality({ i \in 1..Len(readings) :
                           readings[i].timestamp.t > readings[k].timestamp.t }) >= 10

\* C12: in GET /units totalReadings is the number of all the readings stored
\* for the unit and alertsCount the number of "Needs Attention" among all of
\* them, not among the 10 latest; a unit whose alerts are all older than its
\* 10 latest readings has alertsCount > 0 and healthStatus healthy.
C12_CountsOverAllReadings ==
    req.op = "units"
    => \A n \in 1..Len(resp.units) :
          LET status == resp.units[n]
              readings == SENSOR_READINGS_STORE[status.unitId]
          IN  /\ status.totalReadings = Len(readings)
              /\ status.alertsCount = Cardinality(AlertIndices(readings))
              /\ AlertsOlderThanLatestTen(readings)
                    => status.alertsCount > 0 /\ status.healthStatus = "healthy"

\* twelve readings, the two alerts stamped 1 and the other ten stamped later
C12_Witness ==
    /\ UnitsAnswered
    /\ \E n \in 1..Len(resp.units) :
          LET status == resp.units[n]
              readings == SENSOR_READINGS_STORE[status.unitId]
          IN  /\ AlertsOlderThanLatestTen(readings)
              /\ status.totalReadings = 12
              /\ status.alertsCount = 2
              /\ status.healthStatus = "healthy"

\* a step that answers GET /alerts or GET /units
QueryStep == now' = now /\ req'.op \in {"alerts", "units"}

\* C13: GET /alerts and GET /units leave the store as it was; the same query
\* asked twice in a row is answered the same, and so is a query asked again
\* in any state in which its answer is the last one given (time may have
\* passed, the store has not changed).
C13_QueriesIdempotent ==
    [][ /\ QueryStep => SENSOR_READINGS_STORE' = SENSOR_READINGS_STORE
        /\ (QueryStep /\ req' = req) => resp' = resp
        /\ req'.op = "alerts"
              => get_unit_alerts(SENSOR_READINGS_STORE', req'.unit_id) = resp'
        /\ req'.op = "units" => get_all_units(SENSOR_READINGS_STORE') = resp' ]_vars

\* the alerts of a unit whose list is not in the order of the answer
C13_Witness ==
    /\ AlertsAnswered
    /\ Len(resp.alerts) = 2
    /\ Len(AnsweredUnitReadings) = 2
    /\ AnsweredUnitReadings[1].timestamp.t < AnsweredUnitReadings[2].timestamp.t
    /\ resp.alerts[1] = AnsweredUnitReadings[2]
    /\ resp.alerts[2] = AnsweredUnitReadings[1]

\* C14: a unit is a key of the store exactly when a reading was accepted for
\* it: every key holds at least one record, all of them records of that unit;
\* a key appears only with an accepted submission for it, every accepted
\* submission leaves its unit a key, no key ever disappears, and GET /alerts
\* for an unknown unit creates none.
C14_KeyIffReadingAccepted ==
    [][ /\ \A u \in DOMAIN SENSOR_READINGS_STORE' :
               /\ Len(SENSOR_READINGS_STORE'[u]) >= 1
               /\ \A i \in 1..Len(SENSOR_READINGS_STORE'[u]) :
                      SENSOR_READINGS_STORE'[u][i].unitId = u
        /\ DOMAIN SENSOR_READINGS_STORE \subseteq DOMAIN SENSOR_READINGS_STORE'
        /\ \A u \in DOMAIN SENSOR_READINGS_STORE' \ DOMAIN SENSOR_READINGS_STORE :
               /\ SubmitStep /\ resp'.code = 200
               /\ u = SelectSeq(req'.body.unitId, LAMBDA c : c # " ")
        /\ (SubmitStep /\ resp'.code = 200)
              => SelectSeq(req'.body.unitId, LAMBDA c : c # " ")
                   \in DOMAIN SENSOR_READINGS_STORE'
        /\ req'.op = "alerts"
              => DOMAIN SENSOR_READINGS_STORE' = DOMAIN SENSOR_READINGS_STORE ]_vars

\* alerts asked of a unit that never reported, another unit being stored
C14_Witness ==
    /\ AlertsAnswered
    /\ resp.unitId = <<"c">> /\ ~resp.unitExists
    /\ DOMAIN SENSOR_READINGS_STORE = {<<"a">>, <<"b">>}

\* the records of a list, as a set
RecordsOf(readings) == { readings[i] : i \in 1..Len(readings) }

\* C15: no step removes, moves or changes a stored record: every unit's list
\* before a step is a prefix of its list after the step (so of its list in
\* every later state), labels included; the records a query returns are
\* stored records of the unit, with the label they were stored with.
C15_StoredRecordsStay ==
    [][ /\ \A u \in DOMAIN SENSOR_READINGS_STORE :
               /\ u \in DOMAIN SENSOR_READINGS_STORE'
               /\ IsPrefix(SENSOR_READINGS_STORE[u], SENSOR_READINGS_STORE'[u])
        /\ (req'.op = "alerts" /\ resp'.code = 200)
              => RecordsOf(resp'.alerts)
                   \subseteq RecordsOf(store_get(SENSOR_READINGS_STORE', resp'.unitId))
        /\ req'.op = "units"
              => \A n \in 1..Len(resp'.units) :
                     RecordsOf(resp'.units[n].lastReading)
                       \subseteq RecordsOf(SENSOR_READINGS_STORE'[resp'.units[n].unitId]) ]_vars

\* a healthy reading stored before an alert with an earlier timestamp, and
\* the alerts of the unit asked for
C15_Witness ==
    /\ AlertsAnswered
    /\ Len(AnsweredUnitReadings) = 2
    /\ AnsweredUnitReadings[1].classification = "Healthy"
    /\ AnsweredUnitReadings[2].classification = "Needs Attention"
    /\ AnsweredUnitReadings[1].timestamp.t > AnsweredUnitReadings[2].timestamp.t
    /\ resp.alerts = <<AnsweredUnitReadings[2]>>

\* the request of client c was a submission and was answered 200
Accepted(c) == req[c].op = "submit" /\ req[c].pc = "done" /\ resp[c].code = 200

Answered(c, op) == req[c].op = op /\ req[c].pc = "done"

\* the record an accepted submission of this body stores
EntryOf(body) ==
    [unitId |-> SelectSeq(body.unitId, LAMBDA ch : ch # " "),
     timestamp |-> body.timestamp, readings |-> body.readings,
     classification |-> LabelOf(body.readings.pH)]

CountIn(readings, r) == Cardinality({ i \in 1..Len(readings) : readings[i] = r })

\* the first n stored readings of a unit: its list before the later appends
SeenBy(unit_id, n) ==
    SubSeq(store_get(SENSOR_READINGS_STORE, unit_id), 1, n)

\* C16: with requests handled concurrently, the store holds the record of
\* every accepted submission under its unit as many times as it was accepted
\* (two first readings of a new unit are both kept) and holds nothing else;
\* every query is answered, and what it reports of a unit is what the unit's
\* list was at one moment, before or after each append, never part of one.
C16_NoLostUpdateNoPartialRead ==
    /\ \A c \in Clients :
           Accepted(c)
           => LET r == EntryOf(req[c].arg)
              IN  CountIn(store_get(SENSOR_READINGS_STORE, r.unitId), r)
                    = Cardinality({ d \in Clients :
                                      Accepted(d) /\ EntryOf(req[d].arg) = r })
    /\ \A u \in DOMAIN SENSOR_READINGS_STORE :
           \A i \in 1..Len(SENSOR_READINGS_STORE[u]) :
               /\ SENSOR_READINGS_STORE[u][i].unitId = u
               /\ \E c \in Clients :
                      Accepted(c) /\ EntryOf(req[c].arg) = SENSOR_READINGS_STORE[u][i]
    /\ \A c \in Clients :
           Answered(c, "alerts")
           => /\ resp[c].code = 200
              /\ resp[c].totalReadings
                    <= Len(store_get(SENSOR_READINGS_STORE, resp[c].unitId))
              /\ LET seen == SeenBy(resp[c].unitId, resp[c].totalReadings)
                 IN  /\ resp[c].unitExists <=> seen # <<>>
                     /\ Len(resp[c].alerts) = Min(10, Cardinality(AlertIndices(seen)))
                     /\ RecordsOf(resp[c].alerts)
                           \subseteq { seen[i] : i \in AlertIndices(seen) }
    /\ \A c \in Clients :
           Answered(c, "units")
           => /\ resp[c].code = 200
              /\ \A n \in 1..Len(resp[c].units) :
                     LET status == resp[c].units[n]
                         seen == SeenBy(status.unitId, status.totalReadings)
                     IN  /\ status.totalReadings >= 1
                         /\ Len(seen) = status.totalReadings
                         /\ status.alertsCount = Cardinality(AlertIndices(seen))
                         /\ RecordsOf(status.lastReading) \subseteq RecordsOf(seen)
                         /\ RecordsOf(status.lastReading) # {}

\* two accepted submissions of the same body for unit a, and an overview
\* that saw the unit with the first of them only
C16_Witness ==
    /\ \E c, d \in Clients :
           /\ c # d /\ Accepted(c) /\ Accepted(d)
           /\ req[c].arg = req[d].arg
           /\ <<"a">> \in DOMAIN SENSOR_READINGS_STORE
           /\ SENSOR_READINGS_STORE[<<"a">>] = <<EntryOf(req[c].arg), EntryOf(req[d].arg)>>
    /\ \E c \in Clients :
           /\ Answered(c, "units")
           /\ resp[c].totalUnits = 1
           /\ resp[c].units[1].totalReadings = 1

\* the position of the first stored reading among those with the latest timestamp
FirstLatest(readings) ==
    CHOOSE k \in 1..Len(readings) :
        /\ \A i \in 1..Len(readings) : readings[i].timestamp.t <= readings[k].timestamp.t
        /\ \A i \in 1..(k - 1) : readings[i].timestamp.t < readings[k].timestamp.t

\* C17: in GET /units every listed unit has a lastReading; it is a stored
\* reading of the unit with the latest timestamp of all its readings, and of
\* several readings with that timestamp the one stored first.
C17_LastReadingIsLatest ==
    req.op = "units"
    => \A n \in 1..Len(resp.units) :
          LET status == resp.units[n]
              readings == SENSOR_READINGS_STORE[status.unitId]
          IN  /\ Len(status.lastReading) = 1
              /\ status.lastReading[1] \in RecordsOf(readings)
              /\ status.lastReading[1].unitId = status.unitId
              /\ \A i \in 1..Len(readings) :
                     readings[i].timestamp.t <= status.lastReading[1].timestamp.t
              /\ status.lastReading[1] = readings[FirstLatest(readings)]

\* stored after nine readings stamped 2: an alert stamped 3, a healthy
\* reading stamped 3, a healthy reading stamped 1; the alert is lastReading
C17_Witness ==
    /\ UnitsAnswered
    /\ \E n \in 1..Len(resp.units) :
          LET status == resp.units[n]
              readings == SENSOR_READINGS_STORE[status.unitId]
          IN  /\ Len(readings) = 12
              /\ readings[10].timestamp.t = 3 /\ readings[10].classification = "Needs Attention"
              /\ readings[11].timestamp.t = 3 /\ readings[11].classification = "Healthy"
              /\ readings[12].timestamp.t = 1
              /\ status.lastReading = <<readings[10]>>

\* the first field, in the order pH, temp, ec, that is out of the range check's limits
FirstOffending(readings) ==
    IF PhOutOfRange(readings) THEN "pH"
    ELSE IF TempOutOfRange(readings) THEN "temp"
    ELSE IF EcNegative(readings) THEN "ec" ELSE "none"

\* C18: POST /sensor checks the timestamp before the ranges and reports one
\* error: a decoded submission with a future timestamp and a value out of
\* range (temperature 70) is answered 400 InvalidTimestamp, not 422; a 422
\* of the range check names the first offending field in the order pH,
\* temperature, EC.
C18_TimestampBeforeRange ==
    [][ (SubmitStep /\ SensorDataInput(req'.body).ok)
        => /\ (req'.body.timestamp.t > req'.at /\ OutOfRange(req'.body.readings))
                => resp'.code = 400 /\ resp'.error = "InvalidTimestampError"
           /\ resp'.error = "InvalidSensorReadingsError"
                => /\ resp'.code = 422
                   /\ resp'.field = FirstOffending(req'.body.readings) ]_vars

\* a temperature that decodes and is outside the limits of the range check
TempDecodesOutOfRange(readings) ==
    \/ -500 <= readings.temp /\ readings.temp < -100
    \/ 600 < readings.temp /\ readings.temp <= 1000

\* C19: every stored record has pH in [0,14], temperature in [-10,60] and EC
\* in [0,10].  A submission with a temperature in [-50,-10) or (60,100] (and
\* nothing else wrong) decodes and is never stored; when it reaches the range
\* check, that check rejects it with 422 naming the temperature.  A
\* submission with an EC above 10 is rejected with 422 when it is decoded,
\* before the range check, which tests EC for a negative value only.
C19_StoredWithinBothBounds ==
    [][ /\ \A u \in DOMAIN SENSOR_READINGS_STORE' :
               \A i \in 1..Len(SENSOR_READINGS_STORE'[u]) :
                   LET readings == SENSOR_READINGS_STORE'[u][i].readings
                   IN  /\ 0 <= readings.pH /\ readings.pH <= 140
                       /\ -100 <= readings.temp /\ readings.temp <= 600
                       /\ 0 <= readings.ec /\ readings.ec <= 100
        /\ (/\ SubmitStep /\ req'.body.wellFormed
            /\ SelectSeq(req'.body.unitId, LAMBDA c : c # " ") # <<>>
            /\ ~PhOutOfRange(req'.body.readings)
            /\ 0 <= req'.body.readings.ec /\ req'.body.readings.ec <= 100
            /\ TempDecodesOutOfRange(req'.body.readings))
              => /\ resp'.error # "RequestValidationError"
                 /\ resp'.code # 200
                 /\ SENSOR_READINGS_STORE' = SENSOR_READINGS_STORE
                 /\ resp'.error \notin {"InvalidTimestampError", "Exception"}
                       => /\ resp'.code = 422
                          /\ resp'.error = "InvalidSensorReadingsError"
                          /\ resp'.field = "temp"
                 /\ (req'.body.timestamp.aware /\ req'.body.timestamp.t <= req'.at)
                       => resp'.error = "InvalidSensorReadingsError"
        /\ (SubmitStep /\ req'.body.wellFormed /\ req'.body.readings.ec > 100)
              => /\ resp'.code = 422 /\ resp'.error = "RequestValidationError"
                 /\ validate_sensor_readings(req'.body.readings).exc = "ok"
                 /\ SENSOR_READINGS_STORE' = SENSOR_READINGS_STORE ]_vars

\* a record with temperature 60 and EC 10 is stored, and a submission with
\* temperature 60.1 has just been rejected by the range check
C19_Witness ==
    /\ req.op = "submit"
    /\ req.body.readings.temp = 601
    /\ resp.code = 422 /\ resp.error = "InvalidSensorReadingsError" /\ resp.field = "temp"
    /\ \E u \in DOMAIN SENSOR_READINGS_STORE :
           \E i \in 1..Len(SENSOR_READINGS_STORE[u]) :
               /\ SENSOR_READINGS_STORE[u][i].readings.temp = 600
               /\ SENSOR_READINGS_STORE[u][i].readings.ec = 100

\* a unit id without its leading and trailing blanks
Trimmed(v) ==
    LET inked == { i \in 1..Len(v) : v[i] # " " }
    IN  IF inked = {} THEN <<>>
        ELSE SubSeq(v, CHOOSE i \in inked : \A j \in inked : i <= j,
                       CHOOSE i \in inked : \A j \in inked : i >= j)

\* C20: unit ids are trimmed on both paths.  An accepted submission is stored
\* under its trimmed unit id; GET /alerts with a padded unit id is answered
\* as with the trimmed one and reports the trimmed one; no key of the store
\* is empty or blank or begins or ends with a blank.
C20_UnitIdsTrimmed ==
    [][ /\ (SubmitStep /\ resp'.code = 200)
              => LET u == Trimmed(req'.body.unitId)
                 IN  /\ DOMAIN SENSOR_READINGS_STORE' = DOMAIN SENSOR_READINGS_STORE \cup {u}
                     /\ SENSOR_READINGS_STORE'[u][Len(SENSOR_READINGS_STORE'[u])].unitId = u
                     /\ Len(SENSOR_READINGS_STORE'[u])
                           = Len(store_get(SENSOR_READINGS_STORE, u)) + 1
        /\ (req'.op = "alerts" /\ ParamNamesUnit(req'.unit_id))
              => /\ resp'.unitId = Trimmed(req'.unit_id.value)
                 /\ resp' = get_unit_alerts(SENSOR_READINGS_STORE',
                                            [given |-> TRUE,
                                             value |-> Trimmed(req'.unit_id.value)])
        /\ \A u \in DOMAIN SENSOR_READINGS_STORE' :
               u # <<>> /\ u[1] # " " /\ u[Len(u)] # " " ]_vars

\* unit a, stored from a submission with a padded id, asked for with a
\* padded id
C20_Witness ==
    /\ AlertsAnswered
    /\ req.unit_id.value = <<" ", "a">>
    /\ resp.unitId = <<"a">>
    /\ resp.unitExists /\ Len(resp.alerts) = 1
    /\ DOMAIN SENSOR_READINGS_STORE = {<<"a">>, <<"b">>}

\* an overview and an answer about the alerts of one unit agree
QueriesAgree(overview, alerts) ==
    LET listed == { n \in 1..Len(overview.units) :
                      overview.units[n].unitId = alerts.unitId }
    IN  /\ listed # {} <=> alerts.unitExists
        /\ \A n \in listed :
               /\ overview.units[n].totalReadings = alerts.totalReadings
               /\ Len(alerts.alerts) = Min(10, overview.units[n].alertsCount)

\* C21: GET /units and GET /alerts agree on every unit.  Asked one after the
\* other, in either order, with the store the same for both: the unit is
\* listed in the overview exactly when the alerts answer has unitExists true,
\* and for a listed unit the two totalReadings are equal and the number of
\* alerts returned is min(10, alertsCount of the overview).
C21_QueriesAgree ==
    [][ /\ (req.op = "units" /\ req'.op = "alerts" /\ resp'.code = 200)
              => QueriesAgree(resp, resp')
        /\ (req.op = "alerts" /\ resp.code = 200 /\ req'.op = "units")
              => QueriesAgree(resp', resp) ]_vars

\* unit a holds twelve alerts, ten of them returned; the overview counts twelve
C21_Witness ==
    /\ AlertsAnswered
    /\ resp.unitId = <<"a">>
    /\ resp.totalReadings = 12
    /\ Len(resp.alerts) = 10
    /\ LET overview == get_all_units(SENSOR_READINGS_STORE)
       IN  /\ overview.totalUnits = 1
           /\ overview.units[1].alertsCount = 12
           /\ overview.units[1].totalReadings = 12

====
